---- MODULE Spec2Model ----
(***************************************************************************)
(* Model of javdb-python's main.py: the run of main() (search, selection,  *)
(* the two detail-page stages, the JSON document, the output file and the  *)
(* preview downloads), the metadata extraction cascade and safe_filename.  *)
(*                                                                         *)
(* Python strings are sequences of one-character strings; Python's None is *)
(* the value None below, which is no string.                               *)
(***************************************************************************)
EXTENDS Integers, Sequences, FiniteSets, TLC

VARIABLES
    pc,           \* position of the run inside main()
    query_arg,    \* main's parameter query_arg
    link_arg,     \* main's parameter link_arg
    output_path,  \* main's parameter output_path
    download,     \* main's parameter download
    page,         \* the detail page the site serves to the metadata stage
    query,        \* main's local `query` (Unbound until assigned)
    items,        \* main's local `items`
    choice,       \* choose_item's local `choice`
    selected,     \* main's local `selected`
    metadata,     \* main's local `metadata`
    imgs,         \* main's local `imgs`
    data,         \* main's local `data` (the emitted document)
    emitted,      \* TRUE once print(pretty) has run
    folder_name,  \* main's local `folder_name`
    folder,       \* main's local `folder`
    idx,          \* position of the download loop in data["preview_images"]
    reqs,         \* every requests.get issued, in order
    writes,       \* every file write attempted, in order
    prompts,      \* every input() call, in order
    report,       \* the condition main printed before an early return
    exc           \* the exception that left main, if any

vars == <<pc, query_arg, link_arg, output_path, download, page, query,
          items, choice, selected, metadata, imgs, data, emitted, folder_name, folder,
          idx, reqs, writes, prompts, report, exc>>

----------------------------------------------------------------------------
(* Python values *)

None == <<"None">>

Unbound == <<"Unbound">>

\* Python truthiness of None, a str or a list
Truthy(x) == x # None /\ x # <<>>

\* Python's `a or b`
Or(a, b) == IF Truthy(a) THEN a ELSE b

\* characters str.strip() and the regex class \s treat as whitespace
Whitespace == {" ", "\t", "\n", "\r"}

\* the class [\\/:*?"<>|] of safe_filename
Forbidden == {"\\", "/", ":", "*", "?", "\"", "<", ">", "|"}

\* the class [,/|•;] of the list splitting (the bullet written as a token)
Delims == {",", "/", "|", "bullet", ";"}

\* the characters of b.next_sibling.strip(" :\n\t")
LabelStripChars == {" ", ":", "\n", "\t"}

\* code points, for Python's ordering of str
CodePoint ==
    ("\t" :> 9) @@ ("\n" :> 10) @@ ("\r" :> 13) @@ (" " :> 32) @@
    ("\"" :> 34) @@ ("*" :> 42) @@ ("," :> 44) @@ ("-" :> 45) @@
    ("/" :> 47) @@ ("1" :> 49) @@ ("2" :> 50) @@ (":" :> 58) @@
    (";" :> 59) @@ ("<" :> 60) @@ (">" :> 62) @@ ("?" :> 63) @@
    ("A" :> 65) @@ ("B" :> 66) @@ ("\\" :> 92) @@ ("_" :> 95) @@
    ("a" :> 97) @@ ("b" :> 98) @@ ("|" :> 124) @@ ("bullet" :> 8226)

SetMin(S) == CHOOSE x \in S : \A y \in S : x <= y

SetMax(S) == CHOOSE x \in S : \A y \in S : x >= y

\* s.strip(chars)
StripChars(s, chars) ==
    LET keep == {i \in 1..Len(s) : s[i] \notin chars}
    IN  IF keep = {} THEN <<>> ELSE SubSeq(s, SetMin(keep), SetMax(keep))

\* s.strip()
Strip(s) == StripChars(s, Whitespace)

\* re.sub(r"[cls]+", rep, s): every maximal run of cls becomes one rep
SubRuns(s, cls, rep) ==
    LET marked == [i \in 1..Len(s) |->
                     IF s[i] \notin cls THEN s[i]
                     ELSE IF i > 1 /\ s[i - 1] \in cls THEN "drop" ELSE rep]
    IN  SelectSeq(marked, LAMBDA c : c # "drop")

\* s[:n]
Take(s, n) == IF Len(s) <= n THEN s ELSE SubSeq(s, 1, n)

\* all sequences over S of length at most n
RECURSIVE SeqsUpTo(_, _)
SeqsUpTo(S, n) ==
    IF n = 0 THEN {<<>>}
    ELSE LET shorter == SeqsUpTo(S, n - 1)
         IN  shorter \cup {Append(s, c) : s \in {t \in shorter : Len(t) = n - 1}, c \in S}

----------------------------------------------------------------------------
(* safe_filename *)

NameLimit == 200

safe_filename_nows(name) ==
    Take(SubRuns(Strip(name), Forbidden, "-"), NameLimit)

safe_filename(name) ==
    Take(SubRuns(SubRuns(Strip(name), Forbidden, "-"), Whitespace, "_"), NameLimit)

----------------------------------------------------------------------------
(* Python helpers used by the extraction and the projection *)

\* Python's s < t on str: lexicographic by code point
RECURSIVE StrLess(_, _)
StrLess(s, t) ==
    IF t = <<>> THEN FALSE
    ELSE IF s = <<>> THEN TRUE
    ELSE IF CodePoint[Head(s)] # CodePoint[Head(t)]
         THEN CodePoint[Head(s)] < CodePoint[Head(t)]
         ELSE StrLess(Tail(s), Tail(t))

\* sorted(S) for a set of str
RECURSIVE Sorted(_)
Sorted(S) ==
    IF S = {} THEN <<>>
    ELSE LET m == CHOOSE x \in S : \A y \in S \ {x} : StrLess(x, y)
         IN  <<m>> \o Sorted(S \ {m})

\* sep.join(parts)
RECURSIVE Join(_, _)
Join(parts, sep) ==
    IF parts = <<>> THEN <<>>
    ELSE IF Len(parts) = 1 THEN parts[1]
    ELSE parts[1] \o sep \o Join(Tail(parts), sep)

\* re.split(r"[,/|•;]+", s)
RECURSIVE SplitDelims(_)
SplitDelims(s) ==
    LET hits == {i \in 1..Len(s) : s[i] \in Delims}
    IN  IF hits = {} THEN <<s>>
        ELSE LET i    == SetMin(hits)
                 rest == {j \in (i + 1)..Len(s) : s[j] \notin Delims}
                 j    == IF rest = {} THEN Len(s) + 1 ELSE SetMin(rest)
             IN  <<SubSeq(s, 1, i - 1)>> \o SplitDelims(SubSeq(s, j, Len(s)))

\* [p.strip() for p in re.split(r"[,/|•;]+", s) if p.strip()]
SplitParts(s) ==
    LET raw      == SplitDelims(s)
        stripped == [i \in 1..Len(raw) |-> Strip(raw[i])]
    IN  SelectSeq(stripped, LAMBDA p : p # <<>>)

\* re.sub(r"\s{2,}", " ", s)
CollapseWs(s) ==
    LET ws(i)  == i >= 1 /\ i <= Len(s) /\ s[i] \in Whitespace
        marked == [i \in 1..Len(s) |->
                     IF ~ws(i) THEN s[i]
                     ELSE IF ws(i - 1) THEN "drop"
                     ELSE IF ws(i + 1) THEN " "
                     ELSE s[i]]
    IN  SelectSeq(marked, LAMBDA c : c # "drop")

Range(f) == {f[i] : i \in DOMAIN f}

\* dict.get(key)
Get(d, k) == IF k \in DOMAIN d THEN d[k] ELSE None

----------------------------------------------------------------------------
(* fetch_movie_metadata: the extraction from a parsed detail page.          *)
(* A page gives what the BeautifulSoup and re calls return on it:           *)
(*   h1       title_el.get_text(strip=True), None without a heading element *)
(*   og       og["content"], None without the meta tag                      *)
(*   blocks   the p/div/li elements in document order, each with            *)
(*              b     the labels contained in the text of its first <b>     *)
(*              a     get_text(strip=True) of each of its anchors, in order *)
(*              sibs  the nodes after that <b>: a NavigableString (str) with*)
(*                    its raw text, or a Tag with its get_text(strip=True)  *)
(*   rx       group(1) of regex.search(page_text) for each synonym pattern  *)
(*            that matches                                                  *)
(*   tags     the texts of the anchors the generic genre selectors match    *)
(*   cast     the texts of the anchors whose href names a cast profile      *)
(*   dvd_code, content_code   group(1) of the two code patterns on          *)
(*            page_all_text, None without a match                           *)
(*   gallery  the a[data-image-src] anchors: full, preview                  *)

ScalarKeys == <<"JAV Series", "DVD ID", "Content ID", "Release Date",
                "Runtime", "Studio", "Director">>

ListKeys == <<"Genre(s)", "Idol(s)/Actress(es)">>

\* the synonym patterns passed to extract_label, in the code's order
Patterns ==
    [k \in Range(ScalarKeys) \cup Range(ListKeys) |->
       CASE k = "JAV Series"   -> <<"JAV Series", "Series">>
         [] k = "DVD ID"       -> <<"DVD ID", "DVD", "DVD-ID">>
         [] k = "Content ID"   -> <<"Content ID", "Content-ID", "Content">>
         [] k = "Release Date" -> <<"Release Date", "Released", "Date">>
         [] k = "Runtime"      -> <<"Runtime", "Running Time", "Length">>
         [] k = "Studio"       -> <<"Studio", "Label">>
         [] k = "Director"     -> <<"Director", "Directed by">>
         [] k = "Genre(s)"     -> <<"Genre\\(s\\)", "Genres", "Genre">>
         [] k = "Idol(s)/Actress(es)" ->
                <<"Idol\\(s\\)/Actress\\(es\\)", "Actress\\(es\\)", "Idol\\(s\\)">>]

\* the while loop over b.next_sibling of labeled_value
RECURSIVE WalkSiblings(_, _)
WalkSiblings(sibs, j) ==
    IF j > Len(sibs) THEN None
    ELSE LET val == IF sibs[j].str
                    THEN StripChars(sibs[j].text, LabelStripChars)
                    ELSE sibs[j].text
         IN  IF val # <<>> THEN val ELSE WalkSiblings(sibs, j + 1)

\* the for loop over s.find_all(["p", "div", "li"]) of labeled_value
RECURSIVE LabeledValueFrom(_, _, _)
LabeledValueFrom(pg, label, i) ==
    IF i > Len(pg.blocks) THEN None
    ELSE LET p == pg.blocks[i]
         IN  IF label \notin p.b THEN LabeledValueFrom(pg, label, i + 1)
             ELSE IF p.a # <<>> /\ p.a[1] # <<>> THEN p.a[1]
             ELSE LET val == WalkSiblings(p.sibs, 1)
                  IN  IF val # None THEN val
                      ELSE LabeledValueFrom(pg, label, i + 1)

labeled_value(pg, label) == LabeledValueFrom(pg, label, 1)

\* labeled_values: every non-empty anchor text of every labeled block
RECURSIVE LabeledValuesFrom(_, _, _)
LabeledValuesFrom(pg, label, i) ==
    IF i > Len(pg.blocks) THEN <<>>
    ELSE LET p == pg.blocks[i]
         IN  (IF label \in p.b THEN SelectSeq(p.a, LAMBDA txt : txt # <<>>) ELSE <<>>)
             \o LabeledValuesFrom(pg, label, i + 1)

labeled_values(pg, label) == LabeledValuesFrom(pg, label, 1)

\* extract_label: the first pattern that matches decides
RECURSIVE ExtractLabelFrom(_, _, _)
ExtractLabelFrom(pg, pats, i) ==
    IF i > Len(pats) THEN None
    ELSE IF pats[i] \in DOMAIN pg.rx THEN CollapseWs(Strip(pg.rx[pats[i]]))
    ELSE ExtractLabelFrom(pg, pats, i + 1)

extract_label(pg, pats) == ExtractLabelFrom(pg, pats, 1)

\* lines 270-292 and 295-330: the set of a list field, then its joined string
ListSet(pg, key, generic) ==
    LET labeled == Range(labeled_values(pg, key))
        byLinks == IF labeled # {} THEN labeled
                   ELSE {t \in Range(generic) : t # <<>>}
        g       == extract_label(pg, Patterns[key])
    IN  IF byLinks # {} THEN byLinks
        ELSE IF Truthy(g) THEN Range(SplitParts(g))
        ELSE {}

ListString(pg, key, generic) ==
    LET values == ListSet(pg, key, generic)
    IN  IF values # {} THEN Join(Sorted(values), <<",", " ">>) ELSE None

\* lines 174-184
TitleOf(pg, sel) ==
    IF pg.h1 # None /\ pg.h1 # <<>> THEN pg.h1
    ELSE IF pg.og # None THEN pg.og
    ELSE sel.title

\* lines 244-267: labeled_value(...) or extract_label([...])
ScalarRaw(pg, key) == Or(labeled_value(pg, key), extract_label(pg, Patterns[key]))

\* lines 332-345: whitespace-only becomes None
Normalized(val) == IF val # None /\ Strip(val) = <<>> THEN None ELSE val

\* lines 355-366: the code-pattern fallback of DVD ID and Content ID
WithCodeFallback(pg, key, val) ==
    IF key = "DVD ID" /\ ~Truthy(val) /\ pg.dvd_code # None THEN pg.dvd_code
    ELSE IF key = "Content ID" /\ ~Truthy(val) /\ pg.content_code # None
         THEN pg.content_code
    ELSE val

ScalarOf(pg, key) == WithCodeFallback(pg, key, Normalized(ScalarRaw(pg, key)))

\* lines 347-353
NormalizedList(val) == IF Truthy(val) /\ Strip(val) = <<>> THEN None ELSE val

fetch_movie_metadata(pg, sel) ==
    [k \in {"Title"} \cup Range(ScalarKeys) \cup Range(ListKeys) |->
       IF k = "Title" THEN TitleOf(pg, sel)
       ELSE IF k = "Genre(s)" THEN NormalizedList(ListString(pg, k, pg.tags))
       ELSE IF k = "Idol(s)/Actress(es)" THEN ListString(pg, k, pg.cast)
       ELSE ScalarOf(pg, k)]

\* fetch_preview_images on a fetched page
fetch_preview_images(pg) == pg.gallery

\* to_list
to_list(s) == IF ~Truthy(s) THEN <<>> ELSE SplitParts(s)

\* lines 398-402
PreviewUrls(images) ==
    LET urls == [i \in 1..Len(images) |-> Or(images[i].full, images[i].preview)]
    IN  SelectSeq(urls, LAMBDA u : Truthy(u))

\* lines 386-403
BuildData(sel, meta, images) ==
    [link           |-> sel.link,
     title          |-> Or(Get(meta, "Title"), sel.title),
     jav_series     |-> Get(meta, "JAV Series"),
     dvd_id         |-> Get(meta, "DVD ID"),
     content_id     |-> Get(meta, "Content ID"),
     release_date   |-> Get(meta, "Release Date"),
     runtime        |-> Get(meta, "Runtime"),
     studio         |-> Get(meta, "Studio"),
     director       |-> Get(meta, "Director"),
     genres         |-> to_list(Get(meta, "Genre(s)")),
     actresses      |-> to_list(Get(meta, "Idol(s)/Actress(es)")),
     preview_images |-> PreviewUrls(images)]

----------------------------------------------------------------------------
(* Bounds and the inputs drawn within them *)

MaxItems == 2

MaxImgs == 2

MaxPrompts == 1

MaxBlocks == 2

MaxSibs == 1

MaxVals == 2

MaxStrLen == 2

MaxAffix == 2

EmptyDict == [k \in {} |-> None]

BlankPage ==
    [h1 |-> None, og |-> None, blocks |-> <<>>,
     rx |-> EmptyDict,
     tags |-> <<>>, cast |-> <<>>, dvd_code |-> None, content_code |-> None,
     gallery |-> <<>>]

DvdCode == <<"A", "B", "-", "1", "2", "3">>

ContentCode == <<"a", "b", "1", "2", "1", "2">>

\* what the user can type at the query prompt
QueryTexts == {<<>>, <<" ">>, <<"q", " ">>}

\* the cards a search can return: link and title as fetch_search builds them
ItemSamples ==
    {[code |-> DvdCode, title |-> <<"S">>, link |-> <<"m">>],
     [code |-> None, title |-> None, link |-> None]}

\* what the user can type at the selection prompt
ChoiceTexts == {<<" ">>, <<"0">>, <<"1", " ">>, <<"2">>, <<"3">>, <<"x">>}

ImageSamples ==
    {[preview |-> <<"p">>, full |-> <<"u">>],
     [preview |-> <<"v">>, full |-> None],
     [preview |-> None, full |-> None]}

\* the detail pages of the runs of main, each with the gallery g
SamplePages(g) ==
    {[pg EXCEPT !.gallery = g] :
        pg \in {BlankPage,
                [BlankPage EXCEPT !.og = <<"O">>, !.content_code = ContentCode],
                [BlankPage EXCEPT !.h1 = <<"T">>,
                                  !.blocks = <<[b |-> {"DVD ID"}, a |-> <<DvdCode>>,
                                                sibs |-> <<>>]>>]}}

----------------------------------------------------------------------------
(* main *)

Init ==
    /\ pc = "start"
    /\ query_arg \in {None, <<" ">>, <<"q", " ">>}
    /\ link_arg \in {None, <<"l">>}
    /\ output_path \in {None, <<"o">>}
    /\ download \in BOOLEAN
    /\ \E g \in SeqsUpTo(ImageSamples, MaxImgs) : page \in SamplePages(g)
    /\ query = Unbound
    /\ items = None
    /\ choice = None
    /\ selected = None
    /\ metadata = None
    /\ imgs = None
    /\ data = None
    /\ emitted = FALSE
    /\ folder_name = None
    /\ folder = None
    /\ idx = 0
    /\ reqs = <<>>
    /\ writes = <<>>
    /\ prompts = <<>>
    /\ report = "none"
    /\ exc = "none"

inputVars == <<query_arg, link_arg, output_path, download, page>>

dlVars == <<folder_name, folder, idx>>

docVars == <<metadata, imgs, data, emitted>>

\* lines 72-78, once the query text is known
EnterQuery(text) ==
    /\ query' = Strip(text)
    /\ IF query' = <<>>
       THEN report' = "empty_query" /\ pc' = "done"
       ELSE report' = report /\ pc' = "search"
    /\ UNCHANGED selected

\* a variant of Start in which a given query wins over a given link
StartQueryFirst ==
    /\ pc = "start"
    /\ IF Truthy(query_arg)
       THEN EnterQuery(query_arg) /\ UNCHANGED prompts
       ELSE IF Truthy(link_arg)
       THEN /\ selected' = [link |-> link_arg, title |-> None]
            /\ pc' = "link"
            /\ UNCHANGED <<query, report, prompts>>
       ELSE \E typed \in QueryTexts :
                EnterQuery(typed) /\ prompts' = Append(prompts, "query")
    /\ UNCHANGED <<inputVars, items, choice, docVars, dlVars, reqs, writes, exc>>

\* lines 67-78
Start ==
    /\ pc = "start"
    /\ IF Truthy(link_arg)
       THEN /\ selected' = [link |-> link_arg, title |-> None]
            /\ pc' = "link"
            /\ UNCHANGED <<query, report, prompts>>
       ELSE IF Truthy(query_arg)
       THEN EnterQuery(query_arg) /\ UNCHANGED prompts
       ELSE \E typed \in QueryTexts :
                EnterQuery(typed) /\ prompts' = Append(prompts, "query")
    /\ UNCHANGED <<inputVars, items, choice, docVars, dlVars, reqs, writes, exc>>

Request(op, target, n, ok) == [op |-> op, target |-> target, n |-> n, ok |-> ok]

\* a variant of FetchSearchFail that goes on with an empty selection
FetchSearchFailGoesOn ==
    /\ pc = "search"
    /\ reqs' = Append(reqs, Request("search", query, 0, FALSE))
    /\ report' = "search_error"
    /\ selected' = [link |-> query, title |-> None]
    /\ pc' = "link"
    /\ UNCHANGED <<inputVars, query, items, choice, docVars, dlVars, writes, prompts, exc>>

\* lines 80-84 when fetch_search raises
FetchSearchFail ==
    /\ pc = "search"
    /\ reqs' = Append(reqs, Request("search", query, 0, FALSE))
    /\ report' = "search_error"
    /\ pc' = "done"
    /\ UNCHANGED <<inputVars, query, items, choice, selected, docVars, dlVars, writes,
                   prompts, exc>>

\* lines 80-93 and 117-123 when fetch_search returns its cards
FetchSearchOk ==
    /\ pc = "search"
    /\ reqs' = Append(reqs, Request("search", query, 0, TRUE))
    /\ \E cards \in SeqsUpTo(ItemSamples, MaxItems) :
          /\ items' = cards
          /\ IF cards = <<>>
             THEN report' = "no_results" /\ pc' = "done" /\ UNCHANGED selected
             ELSE IF Len(cards) = 1
             THEN selected' = cards[1] /\ pc' = "link" /\ UNCHANGED report
             ELSE pc' = "choose" /\ UNCHANGED <<selected, report>>
    /\ UNCHANGED <<inputVars, query, choice, docVars, dlVars, writes, prompts, exc>>

DigitValue ==
    ("0" :> 0) @@ ("1" :> 1) @@ ("2" :> 2) @@ ("3" :> 3)

\* one pass of the while loop of choose_item, lines 100-123
Choose ==
    /\ pc = "choose"
    /\ \E typed \in ChoiceTexts :
          LET digits == Len(choice') = 1 /\ choice'[1] \in DOMAIN DigitValue
              valid  == digits /\ DigitValue[choice'[1]] >= 1
                               /\ DigitValue[choice'[1]] <= Len(items)
          IN  /\ choice' = Strip(typed)
              /\ prompts' = Append(prompts, "choice")
              /\ IF choice' = <<>> THEN
                     /\ Len(prompts) < MaxPrompts
                     /\ UNCHANGED <<pc, selected, report>>
                 ELSE IF choice' = <<"0">> THEN
                     /\ report' = "cancelled"
                     /\ pc' = "done"
                     /\ UNCHANGED selected
                 ELSE IF valid THEN
                     /\ selected' = items[DigitValue[choice'[1]]]
                     /\ pc' = "link"
                     /\ UNCHANGED report
                 ELSE
                     /\ Len(prompts) < MaxPrompts
                     /\ UNCHANGED <<pc, selected, report>>
    /\ UNCHANGED <<inputVars, query, items, docVars, dlVars, reqs, writes, exc>>

\* lines 157-159
CheckLink ==
    /\ pc = "link"
    /\ IF Truthy(selected.link)
       THEN pc' = "metadata" /\ UNCHANGED report
       ELSE report' = "no_link" /\ pc' = "done"
    /\ UNCHANGED <<inputVars, query, items, choice, selected, docVars, dlVars, reqs,
                   writes, prompts, exc>>

\* a variant of FetchMetadataFail that asks for the page a second time
FetchMetadataFailRetries ==
    /\ pc = "metadata"
    /\ reqs' = reqs \o <<Request("metadata", selected.link, 0, FALSE),
                         Request("metadata", selected.link, 0, FALSE)>>
    /\ metadata' = EmptyDict
    /\ pc' = "images"
    /\ UNCHANGED <<inputVars, query, items, choice, selected, imgs, data, emitted, dlVars,
                   writes, prompts, report, exc>>

\* line 371 when the request of fetch_movie_metadata fails (lines 164-169)
FetchMetadataFail ==
    /\ pc = "metadata"
    /\ reqs' = Append(reqs, Request("metadata", selected.link, 0, FALSE))
    /\ metadata' = EmptyDict
    /\ pc' = "images"
    /\ UNCHANGED <<inputVars, query, items, choice, selected, imgs, data, emitted, dlVars,
                   writes, prompts, report, exc>>

\* line 371 when the page arrives (lines 171-368)
FetchMetadataOk ==
    /\ pc = "metadata"
    /\ reqs' = Append(reqs, Request("metadata", selected.link, 0, TRUE))
    /\ metadata' = fetch_movie_metadata(page, selected)
    /\ pc' = "images"
    /\ UNCHANGED <<inputVars, query, items, choice, selected, imgs, data, emitted, dlVars,
                   writes, prompts, report, exc>>

\* lines 386-408: build the document, print it, go on to the output file
Emit(images) ==
    /\ imgs' = images
    /\ data' = BuildData(selected, metadata, images)
    /\ emitted' = TRUE
    /\ pc' = IF Truthy(output_path) THEN "write_output" ELSE "prepare"

\* a variant of FetchImagesFail that leaves the document without its metadata
FetchImagesFailDropsMetadata ==
    /\ pc = "images"
    /\ reqs' = Append(reqs, Request("images", selected.link, 0, FALSE))
    /\ imgs' = <<>>
    /\ data' = BuildData(selected, EmptyDict, <<>>)
    /\ emitted' = TRUE
    /\ pc' = IF Truthy(output_path) THEN "write_output" ELSE "prepare"
    /\ UNCHANGED <<inputVars, query, items, choice, selected, metadata, dlVars, writes,
                   prompts, report, exc>>

\* line 372 when the request of fetch_preview_images fails (lines 128-133)
FetchImagesFail ==
    /\ pc = "images"
    /\ reqs' = Append(reqs, Request("images", selected.link, 0, FALSE))
    /\ Emit(<<>>)
    /\ UNCHANGED <<inputVars, query, items, choice, selected, metadata, dlVars, writes,
                   prompts, report, exc>>

\* line 372 when the page arrives (lines 135-155)
FetchImagesOk ==
    /\ pc = "images"
    /\ reqs' = Append(reqs, Request("images", selected.link, 0, TRUE))
    /\ Emit(fetch_preview_images(page))
    /\ UNCHANGED <<inputVars, query, items, choice, selected, metadata, dlVars, writes,
                   prompts, report, exc>>

\* lines 408-415
WriteOutput ==
    /\ pc = "write_output"
    /\ \E ok \in BOOLEAN :
          writes' = Append(writes, [file |-> "output", ok |-> ok])
    /\ pc' = "prepare"
    /\ UNCHANGED <<inputVars, query, items, choice, selected, docVars, dlVars, reqs,
                   prompts, report, exc>>

\* lines 417-423
PrepareDownload ==
    /\ pc = "prepare"
    /\ IF ~(download /\ Truthy(data.preview_images)) THEN
           /\ pc' = "done"
           /\ UNCHANGED <<folder_name, folder, writes, exc>>
       ELSE IF ~Truthy(data.dvd_id) /\ ~Truthy(data.title) /\ query = Unbound THEN
           /\ exc' = "UnboundLocalError"
           /\ pc' = "raised"
           /\ UNCHANGED <<folder_name, folder, writes>>
       ELSE
           /\ folder_name' = Or(data.dvd_id, Or(data.title, query))
           /\ folder' = safe_filename(folder_name')
           /\ \E ok \in BOOLEAN :
                 /\ writes' = Append(writes, [file |-> "makedirs", ok |-> ok])
                 /\ IF ok THEN pc' = "write_copy" /\ UNCHANGED exc
                    ELSE pc' = "raised" /\ exc' = "OSError"
    /\ UNCHANGED <<inputVars, query, items, choice, selected, docVars, idx, reqs, prompts,
                   report>>

\* lines 425-440
WriteCopy ==
    /\ pc = "write_copy"
    /\ \E ok \in BOOLEAN :
          writes' = Append(writes, [file |-> "copy", ok |-> ok])
    /\ idx' = 1
    /\ pc' = "downloading"
    /\ UNCHANGED <<inputVars, query, items, choice, selected, docVars, folder_name, folder,
                   reqs, prompts, report, exc>>

\* one pass of the for loop, lines 441-460
DownloadImage ==
    /\ pc = "downloading"
    /\ \E outcome \in {"request_failed", "bad_status", "write_failed", "ok"} :
          LET got == outcome \in {"write_failed", "ok"}
          IN  /\ reqs' = Append(reqs,
                            Request("image", data.preview_images[idx], idx, got))
              /\ writes' = IF got
                           THEN Append(writes, [file |-> "image", ok |-> outcome = "ok"])
                           ELSE writes
    /\ idx' = idx + 1
    /\ pc' = IF idx = Len(data.preview_images) THEN "done" ELSE "downloading"
    /\ UNCHANGED <<inputVars, query, items, choice, selected, docVars, folder_name, folder,
                   prompts, report, exc>>

Next ==
    \/ Start
    \/ FetchSearchFail
    \/ FetchSearchOk
    \/ Choose
    \/ CheckLink
    \/ FetchMetadataFail
    \/ FetchMetadataOk
    \/ FetchImagesFail
    \/ FetchImagesOk
    \/ WriteOutput
    \/ PrepareDownload
    \/ WriteCopy
    \/ DownloadImage

Spec == Init /\ [][Next]_vars

----------------------------------------------------------------------------
(* The extraction on its own: runs that have reached line 371, over every   *)
(* page within the bounds.                                                  *)

\* the nodes after a label: NavigableStrings and one Tag
Nodes ==
    {[str |-> TRUE, text |-> <<" ">>],
     [str |-> TRUE, text |-> <<"\r", "\n">>],
     [str |-> TRUE, text |-> <<":", " ", "v">>],
     [str |-> FALSE, text |-> <<"w">>]}

ScalarBlocks(key) ==
    {[b |-> {key}, a |-> <<<<"A">>>>, sibs |-> <<>>],
     [b |-> {}, a |-> <<<<"A">>>>, sibs |-> <<>>]}
    \cup {[b |-> {key}, a |-> a, sibs |-> s] :
             a \in {<<>>, <<<<>>>>}, s \in SeqsUpTo(Nodes, MaxSibs)}

Captures == {None, <<>>, <<"x", " ", " ", "y">>}

\* the pages that populate the scalar field `key`
ScalarPages(key) ==
        {[BlankPage EXCEPT
             !.blocks = bl,
             !.rx = [p \in {q \in DOMAIN cap : cap[q] # None} |-> cap[p]],
             !.dvd_code = IF key = "DVD ID" THEN code[1] ELSE None,
             !.content_code = IF key = "Content ID" THEN code[2] ELSE None] :
            bl \in SeqsUpTo(ScalarBlocks(key), MaxBlocks),
            cap \in [Range(Patterns[key]) -> Captures],
            code \in IF key = "DVD ID" THEN {<<None, None>>, <<DvdCode, None>>}
                     ELSE IF key = "Content ID"
                     THEN {<<None, None>>, <<None, ContentCode>>}
                     ELSE {<<None, None>>}}

\* anchor texts as get_text(strip=True) returns them
Values == {s \in SeqsUpTo({"a", "b", "/", " "}, MaxStrLen) : Strip(s) = s}

\* the pages that populate the list field `key`
ListPages(key) ==
        {[BlankPage EXCEPT
             !.blocks = <<[b |-> {key}, a |-> anchors, sibs |-> <<>>]>>,
             !.tags = IF key = "Genre(s)" THEN generic ELSE <<>>,
             !.cast = IF key = "Genre(s)" THEN <<>> ELSE generic,
             !.rx = [p \in {q \in {Patterns[key][1]} : cap # None} |-> cap]] :
            anchors \in SeqsUpTo(Values, MaxVals),
            generic \in {<<>>, <<<<"b", "/", "a">>, <<>>>>},
            cap \in {None, <<"b", ",", " ", " ", "a">>, <<"a", ";", "a">>}}

\* the pages that vary the title sources under the heading text `h`
TitlePages(h) ==
    {[BlankPage EXCEPT !.h1 = h, !.og = o] :
        o \in {None, <<>>, <<" ">>, <<"O">>}}

\* a run that came by a direct link and has passed line 157
ByLink ==
    /\ query_arg = None
    /\ link_arg = <<"l">>
    /\ query = Unbound
    /\ items = None
    /\ selected = [link |-> <<"l">>, title |-> None]
    /\ reqs = <<>>

\* a run that came by a search with a single card and has passed line 157
BySearch ==
    /\ query_arg = <<"q">>
    /\ link_arg = None
    /\ query = <<"q">>
    /\ \E title \in {None, <<>>, <<"S">>} :
          /\ items = <<[code |-> None, title |-> title, link |-> <<"m">>]>>
          /\ selected = items[1]
    /\ reqs = <<Request("search", query, 0, TRUE)>>

InitMeta ==
    /\ pc = "metadata"
    /\ \/ \E h \in {None, <<>>, <<"T">>} :
             page \in TitlePages(h) /\ (ByLink \/ BySearch)
       \/ \E key \in Range(ScalarKeys) : page \in ScalarPages(key) /\ ByLink
       \/ \E key \in Range(ListKeys) : page \in ListPages(key) /\ ByLink
    /\ output_path = None
    /\ download = FALSE
    /\ choice = None
    /\ metadata = None
    /\ imgs = None
    /\ data = None
    /\ emitted = FALSE
    /\ folder_name = None
    /\ folder = None
    /\ idx = 0
    /\ writes = <<>>
    /\ prompts = <<>>
    /\ report = "none"
    /\ exc = "none"

NextMeta ==
    \/ FetchMetadataFail
    \/ FetchMetadataOk
    \/ FetchImagesFail
    \/ FetchImagesOk

SpecMeta == InitMeta /\ [][NextMeta]_vars

----------------------------------------------------------------------------
(* safe_filename on its own: line 420 applied, then applied to its result   *)

\* a short head, a long run of the character c, a short tail
NameInputs(c) ==
    {head \o [i \in 1..n |-> c] \o tail :
        head \in SeqsUpTo({"a", " ", ":"}, MaxAffix),
        tail \in SeqsUpTo({"a", " ", ":"}, MaxAffix),
        n \in {0} \cup ((NameLimit - 2)..(NameLimit + 1))}

InitName ==
    /\ pc = "name"
    /\ \E c \in {"a", " ", ":"} : folder_name \in NameInputs(c)
    /\ folder = None
    /\ query_arg = None
    /\ link_arg = None
    /\ output_path = None
    /\ download = TRUE
    /\ page = BlankPage
    /\ query = Unbound
    /\ items = None
    /\ choice = None
    /\ selected = None
    /\ metadata = None
    /\ imgs = None
    /\ data = None
    /\ emitted = FALSE
    /\ idx = 0
    /\ reqs = <<>>
    /\ writes = <<>>
    /\ prompts = <<>>
    /\ report = "none"
    /\ exc = "none"

\* line 420
ApplySafeFilename ==
    /\ pc = "name"
    /\ folder' = safe_filename(folder_name)
    /\ pc' = "named"
    /\ UNCHANGED <<inputVars, query, items, choice, selected, docVars, folder_name, idx,
                   reqs, writes, prompts, report, exc>>

\* line 420 with the previous result as the name
ReapplySafeFilename ==
    /\ pc = "named"
    /\ folder_name' = folder
    /\ folder' = safe_filename(folder)
    /\ pc' = "renamed"
    /\ UNCHANGED <<inputVars, query, items, choice, selected, docVars, idx, reqs, writes,
                   prompts, report, exc>>

NextName ==
    \/ ApplySafeFilename
    \/ ReapplySafeFilename

SpecName == InitName /\ [][NextName]_vars

----------------------------------------------------------------------------
(* Properties *)

\* the requests of one operation, in the order issued
ReqsOf(op) == SelectSeq(reqs, LAMBDA r : r.op = op)

MetadataFailed == \E i \in DOMAIN reqs : reqs[i].op = "metadata" /\ ~reqs[i].ok

ImagesFailed == \E i \in DOMAIN reqs : reqs[i].op = "images" /\ ~reqs[i].ok

\* C1: whatever the inputs and whatever the outcome of each fetch and each
\* write, main returns normally: no exception leaves main.
MainReturnsNormally == exc = "none"

\* C2: the two detail-page stages fail independently. After a failed metadata
\* fetch the image fetch is still issued and the document is still emitted,
\* with the seven scalar fields null and both lists empty; after a failed
\* image fetch preview_images is empty and the metadata fields of the
\* document are what the metadata stage produced.
StagesFailIndependently ==
    /\ (MetadataFailed /\ pc # "images") =>
          /\ ReqsOf("images") # <<>>
          /\ emitted
          /\ metadata = EmptyDict
          /\ \A v \in {data.jav_series, data.dvd_id, data.content_id,
                       data.release_date, data.runtime, data.studio,
                       data.director} : v = None
          /\ data.genres = <<>>
          /\ data.actresses = <<>>
    /\ ImagesFailed =>
          /\ emitted
          /\ data.preview_images = <<>>
          /\ ~MetadataFailed => metadata = fetch_movie_metadata(page, selected)
          /\ data.jav_series = Get(metadata, "JAV Series")
          /\ data.dvd_id = Get(metadata, "DVD ID")
          /\ data.content_id = Get(metadata, "Content ID")
          /\ data.release_date = Get(metadata, "Release Date")
          /\ data.runtime = Get(metadata, "Runtime")
          /\ data.studio = Get(metadata, "Studio")
          /\ data.director = Get(metadata, "Director")
          /\ data.genres = to_list(Get(metadata, "Genre(s)"))
          /\ data.actresses = to_list(Get(metadata, "Idol(s)/Actress(es)"))

\* a run whose metadata fetch failed and whose image fetch found previews
MetadataFailedImagesFound ==
    /\ pc = "done"
    /\ MetadataFailed
    /\ ~ImagesFailed
    /\ data.preview_images # <<>>

\* C3: in a run with download requested and a non-empty preview_images, every
\* entry is attempted exactly once, in list order, whatever the earlier
\* attempts and the writes of the output file and of the metadata copy did.
EveryPreviewAttempted ==
    (pc \in {"done", "raised"} /\ emitted /\ download /\ data.preview_images # <<>>) =>
        /\ Len(ReqsOf("image")) = Len(data.preview_images)
        /\ \A i \in DOMAIN data.preview_images :
              /\ ReqsOf("image")[i].n = i
              /\ ReqsOf("image")[i].target = data.preview_images[i]

\* C4: no fetch is retried. A run issues at most one search request, at most
\* one detail-page request per stage (two separate requests of the same link
\* once both stages have run) and at most one request per preview entry, also
\* after a request has failed.
NoFetchRetried ==
    /\ Len(ReqsOf("search")) <= 1
    /\ Len(ReqsOf("metadata")) <= 1
    /\ Len(ReqsOf("images")) <= 1
    /\ \A i, j \in DOMAIN reqs :
          (reqs[i].op = "image" /\ reqs[j].op = "image" /\ reqs[i].n = reqs[j].n)
              => i = j
    /\ emitted =>
          /\ Len(ReqsOf("metadata")) = 1
          /\ Len(ReqsOf("images")) = 1
          /\ ReqsOf("metadata")[1].target = selected.link
          /\ ReqsOf("images")[1].target = selected.link

\* a finished run in which the search succeeded and every later fetch failed
EveryFetchFailedOnce ==
    /\ pc = "done"
    /\ ReqsOf("search") # <<>>
    /\ MetadataFailed
    /\ Len(ReqsOf("image")) >= 2
    /\ \A i \in DOMAIN reqs : reqs[i].op = "image" => ~reqs[i].ok

TerminalReports == {"empty_query", "search_error", "no_results", "cancelled"}

\* C5: a blank query, a failed search, a search without candidates and a
\* selection cancelled with 0 each end the run: the condition is reported,
\* main has returned, and no detail page was or will be requested, nothing
\* written and no image downloaded.
EarlyReturnIsTerminal ==
    /\ [](/\ query = <<>> => report = "empty_query"
          /\ (\E i \in DOMAIN reqs : reqs[i].op = "search" /\ ~reqs[i].ok)
                => report = "search_error"
          /\ items = <<>> => report = "no_results"
          /\ choice = <<"0">> => report = "cancelled"
          /\ report \in TerminalReports =>
                /\ pc = "done"
                /\ \A i \in DOMAIN reqs : reqs[i].op = "search"
                /\ writes = <<>>
                /\ ~emitted)
    /\ [][pc = "done" => UNCHANGED vars]_vars

\* a run cancelled at the selection prompt
SelectionCancelled == report = "cancelled" /\ pc = "done" /\ Len(items) >= 2

\* C6: a given link takes precedence over a query: no search request, no
\* prompt, and both detail-page requests go to the given link.
LinkTakesPrecedence ==
    Truthy(link_arg) =>
        /\ ReqsOf("search") = <<>>
        /\ prompts = <<>>
        /\ \A i \in DOMAIN reqs :
              reqs[i].op \in {"metadata", "images"} => reqs[i].target = link_arg
        /\ emitted => (Len(ReqsOf("metadata")) = 1 /\ Len(ReqsOf("images")) = 1)

\* a run given both a link and a usable query, after both stages
LinkAndQueryGiven ==
    Truthy(link_arg) /\ Truthy(query_arg) /\ Strip(query_arg) # <<>> /\ emitted

StrictlyIncreasing(list) ==
    \A i \in 1..(Len(list) - 1) : StrLess(list[i], list[i + 1])

\* C7: the genres and actresses of the emitted document are strictly
\* increasing in lexicographic order and hold no empty or whitespace-only
\* element, whatever values were collected.
ListsStrictlyIncreasing ==
    emitted =>
        \A list \in {data.genres, data.actresses} :
            /\ StrictlyIncreasing(list)
            /\ \A i \in DOMAIN list : Strip(list[i]) # <<>>

\* C8: every scalar field of the emitted document is null or a string with
\* a non-whitespace character.
ScalarsNullOrVisible ==
    emitted =>
        \A v \in {data.title, data.jav_series, data.dvd_id, data.content_id,
                  data.release_date, data.runtime, data.studio, data.director} :
            v = None \/ Strip(v) # <<>>

\* C9: safe_filename returns at most 200 characters, none of them one of
\* \ / : * ? " < > | or whitespace, and returns its own result unchanged.
SafeFilenameContract ==
    /\ pc \in {"named", "renamed"} =>
          /\ Len(folder) <= NameLimit
          /\ \A i \in DOMAIN folder : folder[i] \notin Forbidden \cup Whitespace
    /\ pc = "renamed" => folder = folder_name

\* a name longer than the limit, with both kinds of replaced characters
LongNameMadeSafe ==
    /\ pc = "named"
    /\ Len(folder_name) > NameLimit
    /\ Len(folder) = NameLimit
    /\ "-" \in Range(folder)
    /\ "_" \in Range(folder)

\* the value the cascade of C10 assigns to a scalar field
CascadeValue(pg, key) ==
    LET labeled == labeled_value(pg, key)
        byRegex == extract_label(pg, Patterns[key])
    IN  IF labeled # None /\ labeled # <<>> THEN labeled
        ELSE IF byRegex # None /\ byRegex # <<>> THEN byRegex
        ELSE IF key = "DVD ID" THEN pg.dvd_code
        ELSE IF key = "Content ID" THEN pg.content_code
        ELSE None

\* C10: each scalar field records the labeled scan's result when that is
\* non-empty, else the non-empty result of the first matching synonym
\* pattern, else (DVD ID and Content ID only) the code-pattern match, else
\* null.
CascadePriority ==
    (ReqsOf("metadata") # <<>> /\ ~MetadataFailed) =>
        \A i \in DOMAIN ScalarKeys :
            metadata[ScalarKeys[i]] = CascadeValue(page, ScalarKeys[i])

====
